---- MODULE Spec2Model ----
(***************************************************************************)
(* The webhook dispatcher: the consumer (apps/webhook-dispatcher/src/      *)
(* consumer.rs) draining the `webhooks` queue with a bounded pool of       *)
(* dispatch tasks, and the dispatcher (dispatcher.rs) turning one queue    *)
(* message into one delivery attempt.                                      *)
(*                                                                         *)
(* Spec      the consumer: run, run_inner, the task pool, the broker.      *)
(* SpecTask  one task in isolation (process_message, dispatch and          *)
(*           handle_result) over a wide range of messages and of answers   *)
(*           of the outside world (record store, DNS, webhook receiver).   *)
(***************************************************************************)
EXTENDS Integers, Sequences, FiniteSets, TLC

VARIABLES
    pc,         \* where run / run_inner stands
    config,     \* Config: prefetch_count, max_retries
    chan,       \* the AMQP channel of the current run_inner
    requested,  \* the shutdown signal has been broadcast at least once
    outerPending, \* run's shutdown_rx holds a signal it has not received yet
    clonePending, \* the resubscribed receiver holds a signal it has not received yet
    mainQ,      \* bodies ready on the queue `webhooks`
    retryQ,     \* bodies waiting on the queue `webhooks_retry`
    tasks,      \* the JoinSet: spawned and not yet reaped tasks
    nextTag,    \* next delivery tag
    produced,   \* bodies put on `webhooks` by the producers so far
    exitBy,     \* why the select loop was left
    handled,    \* the (task, disposition) handle_result dealt with in the step just taken
    attempts,   \* per job: the retry_count it was enqueued with plus its dispatch runs since
    call,       \* SpecTask: the input of the task under study
    result      \* SpecTask: what the task did

vars == <<pc, config, chan, requested, outerPending, clonePending, mainQ, retryQ, tasks,
          nextTag, produced, exitBy, handled, attempts, call, result>>

consumerVars == <<pc, config, chan, requested, outerPending, clonePending, mainQ, retryQ,
                  tasks, nextTag, produced, exitBy, handled, attempts>>

taskVars == <<call, result>>

-----------------------------------------------------------------------------
(* Bounds of the model.                                                    *)

MaxPrefetch == 2        \* prefetch_count ranges over 0..MaxPrefetch
MaxRetriesCfg == 1      \* the configured max_retries of the consumer; 0..MaxRetriesCfg for one task
MaxJobs == 1            \* bodies the producers enqueue
MaxDeliveries == 2      \* deliveries the broker hands out
MaxChain == 3           \* max_retries of a retry chain followed to its end
MaxAddrs == 2           \* addresses one DNS answer holds

-----------------------------------------------------------------------------
(* dispatcher.rs: addresses and the exclusion set.                         *)

V4(a, b, c, d) == [v |-> 4, a |-> <<a, b, c, d>>]
V6(s) == [v |-> 6, a |-> s]
NoAddr == [v |-> 0, a |-> <<>>]

\* std::net::Ipv4Addr predicates used by is_private_ip
V4IsPrivate(o) ==
    \/ o[1] = 10
    \/ o[1] = 172 /\ o[2] >= 16 /\ o[2] <= 31
    \/ o[1] = 192 /\ o[2] = 168
V4IsLoopback(o) == o[1] = 127
V4IsLinkLocal(o) == o[1] = 169 /\ o[2] = 254
V4IsUnspecified(o) == o = <<0, 0, 0, 0>>
V4IsDocumentation(o) ==
    \/ o[1] = 192 /\ o[2] = 0 /\ o[3] = 2
    \/ o[1] = 198 /\ o[2] = 51 /\ o[3] = 100
    \/ o[1] = 203 /\ o[2] = 0 /\ o[3] = 113

\* std::net::Ipv6Addr predicates used by is_private_ip (s: eight 16-bit segments)
V6IsLoopback(s) == s = <<0, 0, 0, 0, 0, 0, 0, 1>>
V6IsUnspecified(s) == s = <<0, 0, 0, 0, 0, 0, 0, 0>>
V6IsUniqueLocal(s) == (s[1] \div 512) * 512 = 64512       \* s[1] & 0xfe00 = 0xfc00
V6IsMulticast(s) == (s[1] \div 256) * 256 = 65280         \* s[1] & 0xff00 = 0xff00

is_private_ip(ip) ==
    IF ip.v = 4
    THEN \/ V4IsPrivate(ip.a)
         \/ V4IsLoopback(ip.a)
         \/ V4IsLinkLocal(ip.a)
         \/ V4IsUnspecified(ip.a)
         \/ V4IsDocumentation(ip.a)
    ELSE \/ V6IsLoopback(ip.a)
         \/ V6IsUnspecified(ip.a)
         \/ V6IsUniqueLocal(ip.a)
         \/ V6IsMulticast(ip.a)

\* the search of `find`, from the i-th candidate on
RECURSIVE FindTargetFrom(_, _)
FindTargetFrom(addrs, i) ==
    IF i > Len(addrs) THEN NoAddr
    ELSE IF ~is_private_ip(addrs[i]) THEN addrs[i]
    ELSE FindTargetFrom(addrs, i + 1)

\* variant: the first candidate, excluded or not
FindFirstAddr(addrs) == IF addrs = <<>> THEN NoAddr ELSE addrs[1]

\* addrs.into_iter().find(|addr| !is_private_ip(addr.ip()))
FindTarget(addrs) == FindTargetFrom(addrs, 1)

-----------------------------------------------------------------------------
(* dispatcher.rs: one delivery attempt.  Option<T> is a sequence of length *)
(* 0 or 1.  The answers of the outside world are the fields of env:        *)
(*   secret   what the lookup of teams.hmac_secret comes back with         *)
(*   dns      what tokio::net::lookup_host answers for a host name         *)
(*   build    whether Client::builder()...build() succeeds                 *)
(*   http     the webhook receiver: a response status, or a transport error*)
(*   audit    what the insert into webhook_logs comes back with            *)
(*   publish  whether basic_publish to the retry queue succeeds            *)

NoOutcome == "none"

\* fetch_hmac_secret: Result<Option<String>>
FetchHmacSecret(lookup) ==
    CASE lookup = "request_failed" -> [ok |-> FALSE, secret |-> <<>>]
      [] lookup = "non_success"    -> [ok |-> TRUE,  secret |-> <<>>]
      [] lookup = "malformed_body" -> [ok |-> FALSE, secret |-> <<>>]
      [] lookup = "no_secret"      -> [ok |-> TRUE,  secret |-> <<>>]
      [] lookup = "found"          -> [ok |-> TRUE,  secret |-> <<"whsec">>]

\* Url::parse and Url::host_str on the destinations the model sends to
UrlParse(webhook_url) ==
    CASE webhook_url = "not a url"                    -> [ok |-> FALSE, host |-> <<>>]
      [] webhook_url = "mailto:ops@example.com"       -> [ok |-> TRUE,  host |-> <<>>]
      [] webhook_url = "http://127.0.0.1/x"           -> [ok |-> TRUE,  host |-> <<"127.0.0.1">>]
      [] webhook_url = "https://hooks.example.com/cb" -> [ok |-> TRUE,  host |-> <<"hooks.example.com">>]

\* tokio::net::lookup_host: an address literal resolves to itself, a name through DNS
LookupHost(host, dns) ==
    IF host = "127.0.0.1"
    THEN [ok |-> TRUE, addrs |-> <<V4(127, 0, 0, 1)>>]
    ELSE dns

\* log_webhook: one insert into webhook_logs; Err only when the request itself fails
LogWebhook(audit, success, status_code, error) ==
    [ok |-> audit # "transport_error",
     log |-> [success |-> success, status_code |-> status_code, error |-> error]]

\* http::StatusCode::is_success
IsSuccess(status) == status >= 200 /\ status < 300

\* the match on status.as_u16() of a response that is not a success
ClassifyStatus(status) ==
    IF status = 429 \/ status = 408 \/ (status >= 500 /\ status <= 599)
    THEN "RetryableError"
    ELSE "FatalError"

\* What one call of dispatch did: ret/outcome is the Result<DispatchResult> it
\* returned, resolved the candidate list it got, pinned the address given to
\* Client::builder().resolve, posted whether the POST was sent, signed whether
\* the signature header was attached, audits the webhook_logs inserts attempted.
DispatchDid(ret, outcome, resolved, pinned, posted, signed, audits) ==
    [ret |-> ret, outcome |-> outcome, resolved |-> resolved, pinned |-> pinned,
     posted |-> posted, signed |-> signed, audits |-> audits]

\* variant: the outcome is returned without an audit write
AfterLogUnlogged(w, outcome, resolved, pinned, posted, signed) ==
    DispatchDid("Ok", outcome, resolved, pinned, posted, signed, <<>>)

\* `log_webhook(..).await?` followed by `Ok(outcome)`
AfterLog(w, outcome, resolved, pinned, posted, signed) ==
    IF w.ok
    THEN DispatchDid("Ok", outcome, resolved, pinned, posted, signed, <<w.log>>)
    ELSE DispatchDid("Err", NoOutcome, resolved, pinned, posted, signed, <<w.log>>)

Dispatch(message, env) ==
    LET hmac == FetchHmacSecret(env.secret)
        url == UrlParse(message.webhook_url)
    IN
    IF ~hmac.ok THEN DispatchDid("Err", NoOutcome, <<>>, NoAddr, FALSE, FALSE, <<>>)
    ELSE IF ~url.ok THEN
        AfterLog(LogWebhook(env.audit, FALSE, <<>>, "Invalid URL"),
                 "FatalError", <<>>, NoAddr, FALSE, FALSE)
    ELSE IF url.host = <<>> THEN
        AfterLog(LogWebhook(env.audit, FALSE, <<>>, "URL missing host"),
                 "FatalError", <<>>, NoAddr, FALSE, FALSE)
    ELSE
    LET addrs == LookupHost(url.host[1], env.dns) IN
    IF ~addrs.ok THEN
        AfterLog(LogWebhook(env.audit, FALSE, <<>>, "DNS failed"),
                 "FatalError", <<>>, NoAddr, FALSE, FALSE)
    ELSE
    LET target_addr == FindTarget(addrs.addrs)
        resolved == <<addrs.addrs>>
    IN
    IF target_addr = NoAddr THEN
        AfterLog(LogWebhook(env.audit, FALSE, <<>>, "Resolved to private/blocked IP"),
                 "FatalError", resolved, NoAddr, FALSE, FALSE)
    ELSE IF ~env.build THEN
        DispatchDid("Err", NoOutcome, resolved, target_addr, FALSE, FALSE, <<>>)
    ELSE
    LET signed == hmac.secret # <<>> IN
    IF env.http.received THEN
        LET status == env.http.status IN
        IF IsSuccess(status)
        THEN AfterLog(LogWebhook(env.audit, IsSuccess(status), <<status>>, ""),
                      "Success", resolved, target_addr, TRUE, signed)
        ELSE AfterLog(LogWebhook(env.audit, FALSE, <<status>>, "HTTP Status"),
                      ClassifyStatus(status), resolved, target_addr, TRUE, signed)
    ELSE
        AfterLog(LogWebhook(env.audit, FALSE, <<>>, "send failed"),
                 "RetryableError", resolved, target_addr, TRUE, signed)

-----------------------------------------------------------------------------
(* consumer.rs: one task (process_message) and its disposition.            *)

Garbage == [json |-> FALSE, job_id |-> 0, webhook_url |-> "", retry_count |-> 0]

\* serde_json::from_slice::<WebhookQueueMessage>
FromSlice(data) ==
    IF data.json
    THEN [ok |-> TRUE,
          message |-> [job_id |-> data.job_id, webhook_url |-> data.webhook_url,
                       retry_count |-> data.retry_count]]
    ELSE [ok |-> FALSE, message |-> [job_id |-> 0, webhook_url |-> "", retry_count |-> 0]]

\* serde_json::to_vec(&message)
ToVec(message) ==
    [json |-> TRUE, job_id |-> message.job_id, webhook_url |-> message.webhook_url,
     retry_count |-> message.retry_count]

NoDispatch == DispatchDid("none", NoOutcome, <<>>, NoAddr, FALSE, FALSE, <<>>)

\* What one task did: ret is the Result<()> of process_message, dispatch what
\* its call of dispatch did, attempted the payloads given to basic_publish,
\* published those that reached the retry queue.
TaskDid(ret, parsed, dispatch, attempted, published) ==
    [ret |-> ret, parsed |-> parsed, dispatch |-> dispatch,
     attempted |-> attempted, published |-> published]

\* variant: one retry too few
ShouldRetryShort(retry_count, max_retries) == retry_count + 1 < max_retries

\* variant: one retry too many
ShouldRetryInclusive(retry_count, max_retries) == retry_count <= max_retries

\* `message.retry_count < max_retries`
ShouldRetry(retry_count, max_retries) == retry_count < max_retries

\* variant: the copy keeps the old retry_count
RetryCopyUnchanged(message) == message

\* variant: the copy counts two attempts
RetryCopyTwice(message) == [message EXCEPT !.retry_count = @ + 2]

\* `message.retry_count += 1` (no overflow: retry_count < max_retries <= u32::MAX)
RetryCopy(message) == [message EXCEPT !.retry_count = @ + 1]

\* variant: a malformed body is an application error
MalformedIsError(data) == TaskDid("Err", FALSE, NoDispatch, <<>>, <<>>)

\* the Err arm of serde_json::from_slice: log and return Ok(())
Malformed(data) == TaskDid("Ok", FALSE, NoDispatch, <<>>, <<>>)

\* variant: only a success closes the job
IsFinalSuccessOnly(outcome) == outcome = "Success"

\* `DispatchResult::Success | DispatchResult::FatalError => Ok(())`
IsFinal(outcome) == outcome \in {"Success", "FatalError"}

ProcessMessage(data, env, max_retries) ==
    LET parsed == FromSlice(data) IN
    IF ~parsed.ok THEN Malformed(data)
    ELSE
    LET message == parsed.message
        d == Dispatch(message, env)
    IN
    IF d.ret = "Err" THEN TaskDid("Err", TRUE, d, <<>>, <<>>)
    ELSE IF IsFinal(d.outcome) THEN TaskDid("Ok", TRUE, d, <<>>, <<>>)
    ELSE IF ShouldRetry(message.retry_count, max_retries) THEN
        LET payload == ToVec(RetryCopy(message)) IN
        IF env.publish
        THEN TaskDid("Ok", TRUE, d, <<payload>>, <<payload>>)
        ELSE TaskDid("Err", TRUE, d, <<payload>>, <<>>)
    ELSE TaskDid("Ok", TRUE, d, <<>>, <<>>)

\* variant: every returned task is nacked
HandleResultNackAll(join, ret) == "nack_requeue"

\* variant: every returned task is acked
HandleResultAckAll(join, ret) == "ack"

\* handle_result: the call made on the delivery.  join is the JoinSet's verdict
\* on the task, ret the Result<()> the task returned.
HandleResult(join, ret) ==
    CASE join = "Ok" /\ ret = "Ok"  -> "ack"
      [] join = "Ok" /\ ret = "Err" -> "nack_requeue"
      [] OTHER                      -> "none"

-----------------------------------------------------------------------------
(* consumer.rs: run, run_inner and the broker.                             *)

Hook == "https://hooks.example.com/cb"
PublicAddr == V4(93, 184, 216, 34)

Response(status) == [received |-> TRUE, status |-> status]
SendError == [received |-> FALSE, status |-> 0]
Resolved(addrs) == [ok |-> TRUE, addrs |-> addrs]
DnsFailure == [ok |-> FALSE, addrs |-> <<>>]

Configs == [prefetch_count : 0..MaxPrefetch, max_retries : {MaxRetriesCfg}]

\* `let max_concurrent = config.prefetch_count as usize`
max_concurrent == config.prefetch_count

\* What the outside world may answer a task of the consumer: the receiver
\* accepts, rejects or fails, the audit insert goes through or cannot be sent;
\* basic_publish fails exactly when the channel is gone.
ConsumerEnvs ==
    [secret : {"found"}, dns : {Resolved(<<PublicAddr>>)}, build : {TRUE},
     http : {Response(200), Response(404), Response(503)},
     audit : {"ok", "transport_error"},
     publish : {chan # "broken"}]

\* the bodies a producer may enqueue for its n-th job: unparsable bytes, a fresh
\* job, or a job whose count is already past the limit
ProducedBodies(n) ==
    {Garbage} \cup
    {[json |-> TRUE, job_id |-> n, webhook_url |-> Hook, retry_count |-> r] :
        r \in {0, config.max_retries + 1}}

NoDid == TaskDid("none", FALSE, NoDispatch, <<>>, <<>>)

\* the deliveries the broker holds unacknowledged on the consumer's channel
Unacked == IF chan \in {"open", "cancelled"} THEN {t.tag : t \in tasks} ELSE {}

\* basic_qos(prefetch_count): 0 is no limit
WindowOpen ==
    config.prefetch_count = 0 \/ Cardinality(Unacked) < config.prefetch_count

\* bodies of the unacknowledged deliveries, oldest first
UnackedBodies ==
    LET F[i \in 0..(nextTag - 1)] ==
            IF i = 0 THEN <<>>
            ELSE F[i - 1] \o
                 (IF i \in Unacked
                  THEN <<(CHOOSE t \in tasks : t.tag = i).body>>
                  ELSE <<>>)
    IN F[nextTag - 1]

Init ==
    /\ pc = "run"
    /\ config \in Configs
    /\ chan = "none"
    /\ requested = FALSE
    /\ outerPending = FALSE
    /\ clonePending = FALSE
    /\ mainQ = <<>>
    /\ retryQ = <<>>
    /\ tasks = {}
    /\ nextTag = 1
    /\ produced = 0
    /\ exitBy = "none"
    /\ handled = <<>>
    /\ attempts = [n \in 1..MaxJobs |-> 0]
    /\ call = <<>>
    /\ result = <<>>

\* a producer enqueues a job on `webhooks`
Produce ==
    /\ produced < MaxJobs
    /\ \E body \in ProducedBodies(produced + 1) :
        /\ mainQ' = Append(mainQ, body)
        /\ attempts' = IF body.json
                       THEN [attempts EXCEPT ![body.job_id] = body.retry_count]
                       ELSE attempts
    /\ produced' = produced + 1
    /\ handled' = <<>>
    /\ UNCHANGED <<pc, config, chan, requested, outerPending, clonePending, retryQ, tasks,
                   nextTag, exitBy, call, result>>

\* x-message-ttl elapses: the head of `webhooks_retry` is dead-lettered to `webhooks`
RetryExpire ==
    /\ retryQ # <<>>
    /\ mainQ' = Append(mainQ, Head(retryQ))
    /\ retryQ' = Tail(retryQ)
    /\ handled' = <<>>
    /\ UNCHANGED <<pc, config, chan, requested, outerPending, clonePending, tasks, nextTag,
                   produced, exitBy, attempts, call,
                   result>>

\* the shutdown signal is broadcast: every receiver subscribed now gets it
ShutdownSignal ==
    /\ pc # "returned"
    /\ requested' = TRUE
    /\ outerPending' = TRUE
    /\ clonePending' = (pc \in {"connect", "select"})
    /\ handled' = <<>>
    /\ UNCHANGED <<pc, config, chan, mainQ, retryQ, tasks, nextTag, produced,
                   exitBy, attempts, call,
                   result>>

\* the connection is lost: the broker requeues what was unacknowledged
ConnLost ==
    /\ chan \in {"open", "cancelled"}
    /\ chan' = "broken"
    /\ mainQ' = UnackedBodies \o mainQ
    /\ handled' = <<>>
    /\ UNCHANGED <<pc, config, requested, outerPending, clonePending, retryQ, tasks, nextTag,
                   produced, exitBy, attempts, call,
                   result>>

\* the broker cancels the consumer: the delivery stream ends, the channel stays
ConsumerCancelled ==
    /\ chan = "open"
    /\ chan' = "cancelled"
    /\ handled' = <<>>
    /\ UNCHANGED <<pc, config, requested, outerPending, clonePending, mainQ, retryQ, tasks,
                   nextTag, produced, exitBy, attempts, call,
                   result>>

\* run: `let mut shutdown_clone = shutdown_rx.resubscribe()`
Resubscribe ==
    /\ pc = "run"
    /\ clonePending' = FALSE
    /\ pc' = "connect"
    /\ handled' = <<>>
    /\ UNCHANGED <<config, chan, requested, outerPending, mainQ, retryQ, tasks, nextTag,
                   produced, exitBy, attempts, call,
                   result>>

\* run_inner up to `let mut tasks = JoinSet::new()`
Connect ==
    /\ pc = "connect"
    /\ chan' = "open"
    /\ tasks' = {}
    /\ exitBy' = "none"
    /\ pc' = "select"
    /\ handled' = <<>>
    /\ UNCHANGED <<config, requested, outerPending, clonePending, mainQ, retryQ, nextTag,
                   produced, attempts, call,
                   result>>

\* run_inner: connect, create_channel, queue_declare, basic_qos or basic_consume
\* fails; run_inner returns Err and its receiver is dropped
ConnectFails ==
    /\ pc = "connect"
    /\ pc' = "failed"
    /\ clonePending' = FALSE
    /\ handled' = <<>>
    /\ UNCHANGED <<config, chan, requested, outerPending, mainQ, retryQ, tasks,
                   nextTag, produced, exitBy, attempts, call,
                   result>>

\* select!: `_ = shutdown_rx.recv() => break`
ObserveShutdown ==
    /\ pc = "select"
    /\ clonePending
    /\ clonePending' = FALSE
    /\ exitBy' = "shutdown"
    /\ pc' = "drain"
    /\ handled' = <<>>
    /\ UNCHANGED <<config, chan, requested, outerPending, mainQ, retryQ, tasks, nextTag,
                   produced, attempts, call,
                   result>>

\* variant: admission while the pool is already full
AcceptGuardOffByOne == Cardinality(tasks) <= max_concurrent

\* select!: `if tasks.len() < max_concurrent`
AcceptGuard == Cardinality(tasks) < max_concurrent

\* select!: `Some(Ok(delivery)) => tasks.spawn(..)`
Accept ==
    /\ pc = "select"
    /\ AcceptGuard
    /\ chan = "open"
    /\ mainQ # <<>>
    /\ WindowOpen
    /\ nextTag <= MaxDeliveries
    /\ tasks' = tasks \cup {[tag |-> nextTag, body |-> Head(mainQ), st |-> "running",
                             did |-> NoDid]}
    /\ mainQ' = Tail(mainQ)
    /\ nextTag' = nextTag + 1
    /\ handled' = <<>>
    /\ UNCHANGED <<pc, config, chan, requested, outerPending, clonePending, retryQ, produced,
                   exitBy, attempts, call,
                   result>>

\* select!: `Some(Err(e)) => return Err(e.into())`; the JoinSet, the channel
\* and the receiver are dropped
StreamError ==
    /\ pc = "select"
    /\ AcceptGuard
    /\ chan = "broken"
    /\ tasks' = {}
    /\ chan' = "none"
    /\ clonePending' = FALSE
    /\ pc' = "failed"
    /\ handled' = <<>>
    /\ UNCHANGED <<config, requested, outerPending, mainQ, retryQ, nextTag,
                   produced, exitBy, attempts, call,
                   result>>

\* select!: `None => break`
StreamEnd ==
    /\ pc = "select"
    /\ AcceptGuard
    /\ chan = "cancelled"
    /\ exitBy' = "stream_end"
    /\ pc' = "drain"
    /\ handled' = <<>>
    /\ UNCHANGED <<config, chan, requested, outerPending, clonePending, mainQ, retryQ, tasks,
                   nextTag, produced, attempts, call,
                   result>>

\* a spawned task runs process_message to its end
TaskRun(t) ==
    /\ t \in tasks
    /\ t.st = "running"
    /\ \E env \in ConsumerEnvs :
        LET did == ProcessMessage(t.body, env, config.max_retries) IN
        /\ tasks' = (tasks \ {t}) \cup {[t EXCEPT !.st = "done", !.did = did]}
        /\ retryQ' = retryQ \o did.published
        /\ attempts' = IF did.parsed
                       THEN [attempts EXCEPT ![t.body.job_id] = @ + 1]
                       ELSE attempts
    /\ handled' = <<>>
    /\ UNCHANGED <<pc, config, chan, requested, outerPending, clonePending, mainQ, nextTag,
                   produced, exitBy, call, result>>

\* `tasks.join_next()` yields a finished task and handle_result deals with it,
\* in the select loop and in the drain loop alike
Reap(t) ==
    /\ pc \in {"select", "drain"}
    /\ t \in tasks
    /\ t.st = "done"
    /\ LET disp == HandleResult("Ok", t.did.ret) IN
        /\ handled' = <<[task |-> t, disp |-> disp]>>
        /\ mainQ' = IF disp = "nack_requeue" /\ t.tag \in Unacked
                    THEN <<t.body>> \o mainQ
                    ELSE mainQ
    /\ tasks' = tasks \ {t}
    /\ UNCHANGED <<pc, config, chan, requested, outerPending, clonePending, retryQ, nextTag,
                   produced, exitBy, attempts, call,
                   result>>

\* variant: the drain loop is skipped
DrainDoneAtOnce == TRUE

\* `while let Some(res) = tasks.join_next().await` ends: the JoinSet is empty
DrainDone == tasks = {}

\* the drain loop ends, run_inner returns Ok(()) and run returns Ok(())
ReturnOk ==
    /\ pc = "drain"
    /\ DrainDone
    /\ chan' = "none"
    /\ pc' = "returned"
    /\ handled' = <<>>
    /\ UNCHANGED <<config, requested, outerPending, clonePending, mainQ, retryQ, tasks,
                   nextTag, produced, exitBy, attempts, call,
                   result>>

\* variant: the supervisor never looks at the signal
ShutdownSeenNever == FALSE

\* run: `shutdown_rx.try_recv().is_ok()`
ShutdownSeen == outerPending

\* run: `if shutdown_rx.try_recv().is_ok() { return Ok(()) }`
ReturnOnShutdown ==
    /\ pc = "failed"
    /\ ShutdownSeen
    /\ outerPending' = FALSE
    /\ pc' = "returned"
    /\ handled' = <<>>
    /\ UNCHANGED <<config, chan, requested, clonePending, mainQ, retryQ, tasks, nextTag,
                   produced, exitBy, attempts, call, result>>

\* run: no signal pending, `sleep(5s)` starts
StartSleep ==
    /\ pc = "failed"
    /\ ~ShutdownSeen
    /\ pc' = "sleep"
    /\ handled' = <<>>
    /\ UNCHANGED <<config, chan, requested, outerPending, clonePending, mainQ, retryQ, tasks,
                   nextTag, produced, exitBy, attempts, call, result>>

\* run: the sleep ends, the loop starts over
Wake ==
    /\ pc = "sleep"
    /\ pc' = "run"
    /\ handled' = <<>>
    /\ UNCHANGED <<config, chan, requested, outerPending, clonePending, mainQ, retryQ, tasks,
                   nextTag, produced, exitBy, attempts, call,
                   result>>

Next ==
    \/ Produce
    \/ RetryExpire
    \/ ShutdownSignal
    \/ ConnLost
    \/ ConsumerCancelled
    \/ Resubscribe
    \/ Connect
    \/ ConnectFails
    \/ ObserveShutdown
    \/ Accept
    \/ StreamError
    \/ StreamEnd
    \/ \E t \in tasks : TaskRun(t)
    \/ \E t \in tasks : Reap(t)
    \/ ReturnOk
    \/ ReturnOnShutdown
    \/ StartSleep
    \/ Wake

Spec == Init /\ [][Next]_vars

-----------------------------------------------------------------------------
(* SpecTask: one task in isolation.  call holds the body, max_retries and  *)
(* the answers of the outside world; RunTask runs process_message and      *)
(* handle_result on them.                                                  *)

AddrPool ==
    {V4(10, 0, 0, 5), V4(172, 31, 255, 1), V4(172, 32, 0, 1), V4(127, 0, 0, 1),
     V4(169, 254, 169, 254), V4(0, 0, 0, 0), V4(203, 0, 113, 9), PublicAddr,
     V6(<<0, 0, 0, 0, 0, 0, 0, 1>>), V6(<<64786, 0, 0, 0, 0, 0, 0, 1>>),
     V6(<<65282, 0, 0, 0, 0, 0, 0, 1>>), V6(<<9734, 18176, 0, 0, 0, 0, 0, 4369>>)}

AddrLists == UNION {[1..n -> AddrPool] : n \in 0..MaxAddrs}

Urls == {"not a url", "mailto:ops@example.com", "http://127.0.0.1/x", Hook}

SecretAnswers == {"found", "no_secret", "non_success", "malformed_body", "request_failed"}

AuditAnswers == {"ok", "non_success", "transport_error"}

\* http::StatusCode holds 100..=999
StatusCodes == 100..999

Json(job_id, webhook_url, retry_count) ==
    [json |-> TRUE, job_id |-> job_id, webhook_url |-> webhook_url,
     retry_count |-> retry_count]

\* every candidate list, a few receivers
HostInputs ==
    [data : {Json(1, Hook, 0)},
     max_retries : {MaxRetriesCfg},
     env : [secret : {"found", "request_failed"},
            dns : {DnsFailure} \cup {Resolved(l) : l \in AddrLists},
            build : BOOLEAN,
            http : {SendError, Response(200), Response(503)},
            audit : {"ok", "transport_error"},
            publish : {TRUE}]]

\* every status, one public host
StatusInputs ==
    [data : {Json(1, Hook, 0)},
     max_retries : {MaxRetriesCfg},
     env : [secret : SecretAnswers,
            dns : {Resolved(<<PublicAddr>>)},
            build : {TRUE},
            http : {Response(s) : s \in StatusCodes},
            audit : AuditAnswers,
            publish : {TRUE}]]

\* every body and every retry budget, a few hosts and receivers
MessageInputs ==
    [data : {Garbage} \cup
            {Json(1, u, r) : u \in Urls, r \in 0..(MaxRetriesCfg + 1)},
     max_retries : 0..MaxRetriesCfg,
     env : [secret : SecretAnswers,
            dns : {DnsFailure, Resolved(<<PublicAddr>>), Resolved(<<V4(10, 0, 0, 5)>>)},
            build : {TRUE},
            http : {SendError, Response(200), Response(404), Response(429), Response(503)},
            audit : AuditAnswers,
            publish : BOOLEAN]]

TaskInputs == HostInputs \cup StatusInputs \cup MessageInputs

InitTask ==
    /\ pc = "run"
    /\ config = [prefetch_count |-> 1, max_retries |-> MaxRetriesCfg]
    /\ chan = "none"
    /\ requested = FALSE
    /\ outerPending = FALSE
    /\ clonePending = FALSE
    /\ mainQ = <<>>
    /\ retryQ = <<>>
    /\ tasks = {}
    /\ nextTag = 1
    /\ produced = 0
    /\ exitBy = "none"
    /\ handled = <<>>
    /\ attempts = [n \in 1..MaxJobs |-> 0]
    /\ call \in {<<i>> : i \in TaskInputs}
    /\ result = <<>>

\* the spawned closure and handle_result on its (delivery, res)
RunTask ==
    /\ call # <<>>
    /\ result = <<>>
    /\ LET did == ProcessMessage(call[1].data, call[1].env, call[1].max_retries) IN
       result' = <<[did |-> did, disp |-> HandleResult("Ok", did.ret)]>>
    /\ UNCHANGED <<consumerVars, call>>

NextTask == RunTask

SpecTask == InitTask /\ [][NextTask]_vars

-----------------------------------------------------------------------------
(* SpecChain: the retry chain of one job whose every attempt is a          *)
(* transient failure and whose audit writes and publishes go through.      *)
(* call holds max_retries, the retry_count the job started with and the    *)
(* body to deliver next (none once the chain has ended); result the        *)
(* attempts made so far.  The published copy is dead-lettered from         *)
(* `webhooks_retry` to `webhooks` unchanged and delivered again.           *)

\* the receiver times out, throttles or fails; no application error
RetryableEnvs ==
    [secret : {"no_secret"}, dns : {Resolved(<<PublicAddr>>)}, build : {TRUE},
     http : {SendError, Response(408), Response(429), Response(500), Response(503)},
     audit : {"ok"},
     publish : {TRUE}]

ChainInputs ==
    {[next |-> <<Json(1, Hook, r)>>, max_retries |-> m, start |-> r] :
        m \in 0..MaxChain, r \in 0..MaxChain}

InitChain ==
    /\ pc = "run"
    /\ config = [prefetch_count |-> 1, max_retries |-> MaxRetriesCfg]
    /\ chan = "none"
    /\ requested = FALSE
    /\ outerPending = FALSE
    /\ clonePending = FALSE
    /\ mainQ = <<>>
    /\ retryQ = <<>>
    /\ tasks = {}
    /\ nextTag = 1
    /\ produced = 0
    /\ exitBy = "none"
    /\ handled = <<>>
    /\ attempts = [n \in 1..MaxJobs |-> 0]
    /\ call \in {<<i>> : i \in {c \in ChainInputs : c.start <= c.max_retries}}
    /\ result = <<>>

\* one delivery of the chain: the task runs, handle_result deals with it, and
\* what it published is the body delivered next
StepChain ==
    /\ call[1].next # <<>>
    /\ \E env \in RetryableEnvs :
        LET did == ProcessMessage(call[1].next[1], env, call[1].max_retries) IN
        /\ result' = Append(result, [did |-> did, disp |-> HandleResult("Ok", did.ret)])
        /\ call' = <<[call[1] EXCEPT !.next = did.published]>>
    /\ UNCHANGED consumerVars

NextChain == StepChain

\* the broker redelivers and the consumer keeps running
SpecChain == InitChain /\ [][NextChain]_vars /\ WF_vars(NextChain)

-----------------------------------------------------------------------------
(* Claims about one task (SpecTask).                                       *)

Ran == result # <<>>
Input == call[1]
Did == result[1].did

\* the candidate list the host of the call resolves to, if it resolves
Candidates ==
    LET url == UrlParse(Input.data.webhook_url) IN
    IF Input.data.json /\ url.ok /\ url.host # <<>>
                       /\ LookupHost(url.host[1], Input.env.dns).ok
    THEN <<LookupHost(url.host[1], Input.env.dns).addrs>>
    ELSE <<>>

\* the exclusion set as the specification lists it: IPv4 private (10/8,
\* 172.16/12, 192.168/16), loopback (127/8), link-local (169.254/16),
\* unspecified, documentation (192.0.2/24, 198.51.100/24, 203.0.113/24);
\* IPv6 loopback, unspecified, unique-local (fc00::/7), multicast (ff00::/8)
Excluded(ip) ==
    IF ip.v = 4
    THEN LET o == ip.a IN
         \/ o[1] \in {10, 127}
         \/ o[1] = 172 /\ o[2] \in 16..31
         \/ <<o[1], o[2]>> \in {<<192, 168>>, <<169, 254>>}
         \/ o = <<0, 0, 0, 0>>
         \/ <<o[1], o[2], o[3]>> \in {<<192, 0, 2>>, <<198, 51, 100>>, <<203, 0, 113>>}
    ELSE LET g == ip.a IN
         \/ g = <<0, 0, 0, 0, 0, 0, 0, 1>>
         \/ g = <<0, 0, 0, 0, 0, 0, 0, 0>>
         \/ g[1] \in 64512..65023
         \/ g[1] \in 65280..65535

\* the outcome the specification gives a response status
OutcomeOfStatus(status) ==
    IF status \in 200..299 THEN "Success"
    ELSE IF status \in {408, 429} \cup 500..599 THEN "RetryableError"
    ELSE "FatalError"

\* C4: when an HTTP response is received, the outcome of dispatch is a total
\* function of the status code alone: 200-299 Success; 408, 429, 500-599
\* RetryableError; every other status FatalError; no status is left without
\* an outcome.
C4_StatusDecidesOutcome ==
    (Ran /\ Did.dispatch.posted /\ Input.env.http.received) =>
        /\ Did.dispatch.ret = "Ok"
        /\ Did.dispatch.outcome = OutcomeOfStatus(Input.env.http.status)

\* C5: a host that resolves only to excluded addresses makes dispatch return
\* FatalError, and no POST is sent.
C5_BlockedHostIsFatal ==
    (Ran /\ Candidates # <<>> /\ Candidates[1] # <<>>
         /\ \A i \in 1..Len(Candidates[1]) : Excluded(Candidates[1][i])) =>
        /\ Did.dispatch.ret = "Ok"
        /\ Did.dispatch.outcome = "FatalError"
        /\ ~Did.dispatch.posted

\* C6: when the resolved candidate list holds an address that is not excluded,
\* the client is pinned to the first such candidate in resolution order; an
\* address the client is pinned to, or a POST goes to, is never an excluded one.
C6_PinnedIsFirstPublic ==
    Ran =>
        /\ \A l \in {Did.dispatch.resolved[k] : k \in 1..Len(Did.dispatch.resolved)} :
              \A i \in 1..Len(l) :
                  (~Excluded(l[i]) /\ \A j \in 1..(i - 1) : Excluded(l[j]))
                      => Did.dispatch.pinned = l[i]
        /\ Did.dispatch.pinned # NoAddr => ~Excluded(Did.dispatch.pinned)
        /\ Did.dispatch.posted =>
              /\ Did.dispatch.pinned # NoAddr
              /\ Did.dispatch.resolved # <<>>
              /\ \E i \in 1..Len(Did.dispatch.resolved[1]) :
                    Did.dispatch.resolved[1][i] = Did.dispatch.pinned

\* C6 witness: an excluded address came first, a public one second, and the
\* POST went out pinned to the second.
C6_Witness ==
    /\ Ran
    /\ Did.dispatch.posted
    /\ Did.dispatch.resolved # <<>>
    /\ Len(Did.dispatch.resolved[1]) = 2
    /\ Excluded(Did.dispatch.resolved[1][1])
    /\ Did.dispatch.pinned = Did.dispatch.resolved[1][2]

\* what the same call does when the audit insert goes through
WithAuditOk == ProcessMessage(Input.data, [Input.env EXCEPT !.audit = "ok"], Input.max_retries)

\* C8: a failed audit write (transport error or non-success response) changes
\* neither what dispatch returns nor the delivery's disposition.
C8_AuditFailureChangesNothing ==
    Ran =>
        /\ Did.dispatch.ret = WithAuditOk.dispatch.ret
        /\ Did.dispatch.outcome = WithAuditOk.dispatch.outcome
        /\ Did.published = WithAuditOk.published
        /\ result[1].disp = HandleResult("Ok", WithAuditOk.ret)

\* what the same call does when the team has no secret on record
WithNoSecret ==
    ProcessMessage(Input.data, [Input.env EXCEPT !.secret = "no_secret"], Input.max_retries)

\* C9: whatever the secret lookup comes back with, dispatch goes on as with no
\* secret: it returns what it returns for a team without a secret, sends the
\* webhook when it would send it then, and signs only with a secret found.
C9_SecretLookupNeverBlocks ==
    (Ran /\ Input.data.json) =>
        /\ Did.dispatch.ret = WithNoSecret.dispatch.ret
        /\ Did.dispatch.outcome = WithNoSecret.dispatch.outcome
        /\ Did.dispatch.posted = WithNoSecret.dispatch.posted
        /\ Did.dispatch.signed => Input.env.secret = "found"

-----------------------------------------------------------------------------
(* Claims about the consumer (Spec).                                       *)

\* the tasks whose process_message has returned: those waiting in the JoinSet
\* and the one handle_result dealt with in the step just taken
Finished == {t \in tasks : t.st = "done"} \cup {handled[i].task : i \in 1..Len(handled)}

\* the task found its body well-formed and its dispatch yielded `outcome`
Yielded(t, outcome) ==
    /\ t.did.parsed
    /\ t.did.dispatch.ret = "Ok"
    /\ t.did.dispatch.outcome = outcome

\* the retry copy the specification asks for: retry_count + 1, the rest unchanged
CopyOf(body) ==
    [json |-> TRUE, job_id |-> body.job_id, webhook_url |-> body.webhook_url,
     retry_count |-> body.retry_count + 1]

\* task t runs process_message to its end in this step
Finishing(t) ==
    /\ t \in tasks
    /\ t.st = "running"
    /\ \E u \in tasks' : u.tag = t.tag /\ u.st = "done"

\* handle_result deals with task t in this step
Reaping(t) == t \in tasks /\ handled' # <<>> /\ handled'[1].task = t

\* C1: the number of spawned and not yet reaped tasks never exceeds
\* prefetch_count, and a task is added to the pool only while the pool holds
\* fewer than prefetch_count tasks.
C1_PoolBounded ==
    /\ [](Cardinality(tasks) <= config.prefetch_count)
    /\ [][Cardinality(tasks') > Cardinality(tasks)
            => Cardinality(tasks) < config.prefetch_count]_vars

\* C1 witness: the pool is full while the loop runs and a body waits on the queue.
C1_Witness ==
    /\ pc = "select"
    /\ chan = "open"
    /\ config.prefetch_count > 0
    /\ Cardinality(tasks) = config.prefetch_count
    /\ mainQ # <<>>

\* C2 as claimed: a dispatch that yields RetryableError with retry_count <
\* max_retries always puts exactly one copy, with retry_count + 1, on the retry
\* queue, and the delivery is positively acknowledged.
C2_RetryPublishedAndAcked ==
    /\ \A t \in Finished :
          (Yielded(t, "RetryableError") /\ t.body.retry_count < config.max_retries)
              => t.did.published = <<CopyOf(t.body)>>
    /\ \A i \in 1..Len(handled) :
          (Yielded(handled[i].task, "RetryableError")
              /\ handled[i].task.body.retry_count < config.max_retries)
              => handled[i].disp = "ack"

\* C2 amended: such a dispatch makes exactly one publish attempt, of the copy
\* with retry_count + 1 and the other fields unchanged.  When the publish
\* succeeds, that one copy is appended to the retry queue, the task returns Ok
\* and the delivery is positively acknowledged when the task is reaped; when it
\* fails, nothing reaches the retry queue, the task returns Err and the
\* delivery is negatively acknowledged with requeue.
C2_RetryPublishedOrNacked ==
    /\ [](\A t \in Finished :
            (Yielded(t, "RetryableError") /\ t.body.retry_count < config.max_retries)
                => /\ t.did.attempted = <<CopyOf(t.body)>>
                   /\ \/ t.did.published = t.did.attempted /\ t.did.ret = "Ok"
                      \/ t.did.published = <<>> /\ t.did.ret = "Err")
    /\ [](\A i \in 1..Len(handled) :
            (Yielded(handled[i].task, "RetryableError")
                /\ handled[i].task.body.retry_count < config.max_retries)
                => handled[i].disp = IF handled[i].task.did.ret = "Ok"
                                     THEN "ack" ELSE "nack_requeue")
    /\ [][\A t \in tasks : Finishing(t) =>
            \E u \in tasks' :
                /\ u.tag = t.tag
                /\ retryQ' = retryQ \o u.did.published]_vars

\* C2 witness: a retry copy was published and its delivery has just been acked.
C2_Witness ==
    /\ handled # <<>>
    /\ Yielded(handled[1].task, "RetryableError")
    /\ handled[1].task.body.retry_count < config.max_retries
    /\ handled[1].task.did.published = <<CopyOf(handled[1].task.body)>>
    /\ handled[1].disp = "ack"

\* C3: a dispatch that yields RetryableError with retry_count >= max_retries
\* publishes nothing to the retry queue and its delivery is positively
\* acknowledged, also when retry_count is above max_retries.
C3_ExhaustedIsDiscarded ==
    /\ [](\A t \in Finished :
            (Yielded(t, "RetryableError") /\ t.body.retry_count >= config.max_retries)
                => /\ t.did.attempted = <<>>
                   /\ t.did.published = <<>>
                   /\ t.did.ret = "Ok")
    /\ [](\A i \in 1..Len(handled) :
            (Yielded(handled[i].task, "RetryableError")
                /\ handled[i].task.body.retry_count >= config.max_retries)
                => handled[i].disp = "ack")
    /\ [][\A t \in tasks :
            (Finishing(t) /\ t.body.json /\ t.body.retry_count >= config.max_retries)
                => retryQ' = retryQ]_vars

\* C3 witness: a delivery that came in above max_retries and failed again has
\* just been acked.
C3_Witness ==
    /\ handled # <<>>
    /\ Yielded(handled[1].task, "RetryableError")
    /\ handled[1].task.body.retry_count > config.max_retries
    /\ handled[1].disp = "ack"

\* C7: a body that does not deserialize is never dispatched, publishes nothing
\* to the retry queue, is positively acknowledged, and handling it leaves the
\* loop where it was: run_inner does not return because of it.
C7_MalformedIsDiscarded ==
    /\ [](\A t \in Finished :
            ~t.body.json => /\ ~t.did.parsed
                            /\ t.did.dispatch = NoDispatch
                            /\ t.did.attempted = <<>>
                            /\ t.did.published = <<>>)
    /\ [](\A i \in 1..Len(handled) :
            ~handled[i].task.body.json => /\ handled[i].disp = "ack"
                                          /\ pc \in {"select", "drain"})
    /\ [][\A t \in tasks :
            ~t.body.json =>
                /\ Finishing(t) => retryQ' = retryQ
                /\ Reaping(t) => /\ pc' = pc
                                 /\ handled'[1].disp = "ack"
                                 /\ mainQ' = mainQ
                                 /\ retryQ' = retryQ]_vars

\* C7 witness: a malformed body has just been acked and the select loop goes on.
C7_Witness ==
    /\ handled # <<>>
    /\ ~handled[1].task.body.json
    /\ handled[1].disp = "ack"
    /\ pc = "select"

\* C10: once the loop has observed the shutdown signal no task is spawned, and
\* run_inner returns only when every task that was in flight has finished and
\* handle_result has acked or nacked its delivery.
C10_ShutdownDrains ==
    /\ [][(pc = "select" /\ exitBy' = "shutdown" /\ pc' = "drain") => tasks' = tasks]_vars
    /\ [][(exitBy = "shutdown" /\ pc = "drain") =>
            /\ {u.tag : u \in tasks'} \subseteq {t.tag : t \in tasks}
            /\ mainQ' # mainQ => Len(mainQ') > Len(mainQ)
            /\ \A t \in tasks :
                  t.tag \notin {u.tag : u \in tasks'} =>
                      /\ t.st = "done"
                      /\ handled' # <<>>
                      /\ handled'[1].task = t
                      /\ handled'[1].disp \in {"ack", "nack_requeue"}
            /\ pc' # "drain" => (pc' = "returned" /\ tasks = {})]_vars
    /\ [][pc' = "returned" /\ pc # "returned" /\ exitBy = "shutdown"
            => pc = "drain" /\ tasks = {}]_vars

\* C10 witness: shutdown was observed with a task in flight and a body still
\* on the queue; the task has just been reaped, the body was left alone.
C10_Witness ==
    /\ exitBy = "shutdown"
    /\ pc = "drain"
    /\ handled # <<>>
    /\ tasks = {}
    /\ mainQ # <<>>

-----------------------------------------------------------------------------
(* Claims about the task pool on the exits of run_inner (Spec).            *)

\* task t is in the JoinSet before this step and not after it
Leaving(t) == t \in tasks /\ \A u \in tasks' : u.tag # t.tag

\* C11: every spawned task runs to completion and is reaped by the loop on
\* every way run_inner can exit: a task leaves the pool only finished and
\* through handle_result, never aborted or dropped, also when the delivery
\* stream yields an error while tasks are running.
C11_TasksRunToCompletion ==
    [][\A t \in tasks : Leaving(t) => (t.st = "done" /\ Reaping(t))]_vars

-----------------------------------------------------------------------------
(* Claims about the supervisor run (Spec).                                 *)

\* C12: when run_inner has failed and no shutdown was requested, run can only
\* start its wait, after the wait only start over, and starting over leads to
\* a fresh connect, whatever happened before (no count of attempts limits
\* it); when run_inner has failed after a shutdown request, run can only
\* return, and it returns without waiting or reconnecting.
C12_SupervisorRestarts ==
    /\ [](pc = "failed" /\ ~requested => ENABLED StartSleep /\ ~ENABLED ReturnOnShutdown)
    /\ [](pc = "failed" /\ requested => ENABLED ReturnOnShutdown /\ ~ENABLED StartSleep)
    /\ [](pc = "sleep" => ENABLED Wake)
    /\ [](pc = "run" => ENABLED Resubscribe)
    /\ [](pc = "connect" => ENABLED Connect)
    /\ [][pc = "failed" /\ ~requested => pc' \in {"failed", "sleep"}]_vars
    /\ [][pc = "failed" /\ requested => pc' \in {"failed", "returned"}]_vars
    /\ [][pc = "sleep" => pc' \in {"sleep", "run"}]_vars
    /\ [][pc = "run" => pc' \in {"run", "connect"}]_vars
    /\ [][pc = "connect" /\ pc' = "select" =>
            chan' = "open" /\ tasks' = {} /\ exitBy' = "none"]_vars

\* C12 witness: deliveries were taken, run_inner failed without a shutdown
\* request, the wait is over and run connects again.
C12_Witness ==
    /\ pc = "connect"
    /\ ~requested
    /\ nextTag > 1
    /\ chan = "none"

-----------------------------------------------------------------------------
(* Further claims about one task (SpecTask).                               *)

\* C13: a message whose dispatch yields Success or FatalError is positively
\* acknowledged and nothing is published (or offered) to the retry queue,
\* whatever retry_count and max_retries are.
C13_FinalOutcomeIsAcked ==
    (Ran /\ Did.dispatch.ret = "Ok" /\ Did.dispatch.outcome \in {"Success", "FatalError"}) =>
        /\ Did.attempted = <<>>
        /\ Did.published = <<>>
        /\ Did.ret = "Ok"
        /\ result[1].disp = "ack"

\* C13 witness: HTTP 404 on a message that still had retries left: FatalError,
\* acked, nothing published.
C13_Witness ==
    /\ Ran
    /\ Did.dispatch.ret = "Ok"
    /\ Did.dispatch.outcome = "FatalError"
    /\ Did.dispatch.posted
    /\ Input.env.http = Response(404)
    /\ Input.data.retry_count < Input.max_retries
    /\ Input.env.publish
    /\ result[1].disp = "ack"

\* C19: a call of dispatch that returns a DispatchOutcome has attempted
\* exactly one audit write before returning, on every path, and the record's
\* success flag is true exactly when the outcome is Success.
C19_OneAuditPerOutcome ==
    (Ran /\ Did.dispatch.ret = "Ok") =>
        /\ Did.dispatch.outcome \in {"Success", "RetryableError", "FatalError"}
        /\ Len(Did.dispatch.audits) = 1
        /\ Did.dispatch.audits[1].success <=> (Did.dispatch.outcome = "Success")

\* C19 witness: the address was blocked and the record store refused the
\* insert: FatalError all the same, after one write with success = false.
C19_Witness ==
    /\ Ran
    /\ Did.dispatch.ret = "Ok"
    /\ Did.dispatch.outcome = "FatalError"
    /\ Did.dispatch.resolved # <<>>
    /\ ~Did.dispatch.posted
    /\ Input.env.audit = "non_success"
    /\ Len(Did.dispatch.audits) = 1
    /\ ~Did.dispatch.audits[1].success

-----------------------------------------------------------------------------
(* Claims about the dispositions and the retry chain (Spec).               *)

\* C14: a task that returned an application error has its delivery nacked
\* with requeue, never acked: the body goes back to the head of the main queue
\* while the channel lives; the error does not end the loop.
C14_ErrorIsNackedWithRequeue ==
    /\ [](\A i \in 1..Len(handled) :
            handled[i].task.did.ret = "Err" =>
                /\ handled[i].disp = "nack_requeue"
                /\ pc \in {"select", "drain"})
    /\ [][\A t \in tasks :
            (Reaping(t) /\ t.did.ret = "Err") =>
                /\ handled'[1].disp = "nack_requeue"
                /\ Leaving(t)
                /\ pc' = pc
                /\ mainQ' = IF t.tag \in Unacked THEN <<t.body>> \o mainQ ELSE mainQ
                /\ retryQ' = retryQ]_vars

\* C14 witness: the publish to the retry queue failed, the task returned Err,
\* its delivery has just been nacked and the select loop goes on.
C14_Witness ==
    /\ handled # <<>>
    /\ handled[1].task.did.ret = "Err"
    /\ handled[1].task.did.attempted # <<>>
    /\ handled[1].task.did.published = <<>>
    /\ handled[1].disp = "nack_requeue"
    /\ pc = "select"

\* the well-formed bodies waiting on the two queues
Queued == {mainQ[i] : i \in 1..Len(mainQ)} \cup {retryQ[i] : i \in 1..Len(retryQ)}

\* the bodies the broker holds: waiting on a queue or delivered to a task
AtBroker == Queued \cup {t.body : t \in tasks}

\* C15 as claimed: the retry_count a job's message carries on the queue equals
\* the number of dispatch runs already made for the job (from 0 for a fresh
\* job), so no attempt leaves it un-incremented on the copy retried next.
C15_RetryCountCountsAttempts ==
    \A b \in Queued : b.json => b.retry_count = attempts[b.job_id]

\* C15 amended: the retry_count of every copy of a job at the broker is at most
\* the count the job was enqueued with plus the dispatch runs made for it; the
\* only step that changes it is the republish, which writes the delivered
\* count plus exactly 1; a nack with requeue and a redelivery after a lost
\* connection put the delivered body back unchanged; no step puts a body
\* with a lower count than the one it was made from on a queue.
C15_RetryCountAtMostAttempts ==
    /\ [](\A b \in AtBroker : b.json => b.retry_count <= attempts[b.job_id])
    /\ [][\A t \in tasks : Finishing(t) =>
            \E u \in tasks' :
                /\ u.tag = t.tag
                /\ \A i \in 1..Len(u.did.published) :
                      u.did.published[i] = CopyOf(t.body)]_vars
    /\ [][produced' = produced =>
            \A i \in 1..Len(mainQ') : mainQ'[i] \in AtBroker]_vars
    /\ [][\A i \in 1..Len(retryQ') :
            \/ retryQ'[i] \in Queued
            \/ \E t \in tasks : t.body.json /\ retryQ'[i] = CopyOf(t.body)]_vars

\* C15 witness: a dispatch run ended in an error, the delivery was nacked and
\* the body is back on the queue with the count it was delivered with, one
\* below the attempts made.
C15_Witness ==
    /\ handled # <<>>
    /\ handled[1].disp = "nack_requeue"
    /\ handled[1].task.did.parsed
    /\ mainQ # <<>>
    /\ Head(mainQ) = handled[1].task.body
    /\ Head(mainQ).retry_count < attempts[Head(mainQ).job_id]

\* the copies of job j the broker holds: ready on `webhooks`, waiting on
\* `webhooks_retry`, or delivered and not yet acknowledged
Copies(j) ==
    Cardinality({i \in 1..Len(mainQ) : mainQ[i].json /\ mainQ[i].job_id = j})
    + Cardinality({i \in 1..Len(retryQ) : retryQ[i].json /\ retryQ[i].job_id = j})
    + Cardinality({t \in tasks : t.tag \in Unacked /\ t.body.json /\ t.body.job_id = j})

\* C16 as claimed: the original delivery is acknowledged before or as the
\* retry copy is published, so the broker never holds two copies of one job
\* (one unacknowledged, one on the retry queue or redelivered from it).
C16_OneCopyAtBroker == \A j \in 1..MaxJobs : Copies(j) <= 1

\* C16 amended: the retry copy is published first, while the original delivery
\* is still unacknowledged, and the publish adds exactly one copy of the job
\* to those the broker holds; the original is acknowledged in a later step,
\* when the loop reaps the task, and that ack removes exactly one copy.
\* Between the two steps the broker holds both.
C16_PublishThenAck ==
    /\ [][\A t \in tasks :
            (Finishing(t) /\ retryQ' # retryQ) =>
                /\ retryQ' = Append(retryQ, CopyOf(t.body))
                /\ \E u \in tasks' : u.tag = t.tag /\ u.body = t.body
                /\ Unacked' = Unacked
                /\ handled' = <<>>
                /\ Copies(t.body.job_id)' = Copies(t.body.job_id) + 1]_vars
    /\ [][\A t \in tasks :
            (Reaping(t) /\ t.did.published # <<>>) =>
                /\ t.st = "done"
                /\ handled'[1].disp = "ack"
                /\ retryQ' = retryQ
                /\ t.tag \in Unacked =>
                      Copies(t.body.job_id)' = Copies(t.body.job_id) - 1]_vars

\* C16 witness: the copy is on the retry queue and the delivery it replaces is
\* still unacknowledged: two copies of the job at the broker.
C16_Witness ==
    \E t \in tasks :
        /\ t.st = "done"
        /\ t.tag \in Unacked
        /\ t.did.published = <<CopyOf(t.body)>>
        /\ CopyOf(t.body) \in {retryQ[i] : i \in 1..Len(retryQ)}
        /\ Copies(t.body.job_id) = 2

-----------------------------------------------------------------------------
(* Claims about a whole retry chain (SpecChain).                           *)

\* the chain of the call in its state after k attempts
ChainAsClaimed(k) ==
    LET r == call[1].start
        m == call[1].max_retries
    IN
    /\ k <= m - r + 1
    /\ \A i \in 1..k :
          /\ result[i].did.dispatch.outcome = "RetryableError"
          /\ result[i].did.ret = "Ok"
          /\ result[i].disp = "ack"
          /\ result[i].did.published =
                IF i <= m - r THEN <<Json(1, Hook, r + i)>> ELSE <<>>
    /\ call[1].next = IF k <= m - r THEN <<Json(1, Hook, r + k)>> ELSE <<>>

\* C17: a job whose every attempt yields RetryableError, starting from
\* retry_count r <= max_retries with no application error, is dispatched
\* exactly max_retries - r + 1 times, republished exactly max_retries - r
\* times, with retry_count r+1, ..., max_retries in that order, every
\* delivery is acked, the last attempt republishes nothing, and the chain
\* ends.
C17_RetryChainTerminates ==
    /\ [](ChainAsClaimed(Len(result)))
    /\ <>(call[1].next = <<>> /\ Len(result) = call[1].max_retries - call[1].start + 1)

\* C17 witness: retry_count 2, max_retries 3: republished once with
\* retry_count 3, discarded after the second attempt.
C17_Witness ==
    /\ call[1].start = 2
    /\ call[1].max_retries = 3
    /\ call[1].next = <<>>
    /\ Len(result) = 2
    /\ result[1].did.published = <<Json(1, Hook, 3)>>
    /\ result[2].did.published = <<>>
    /\ result[2].disp = "ack"

-----------------------------------------------------------------------------
(* Claims about the shutdown signal and the return of run (Spec).          *)

\* C18: a shutdown signal broadcast at any moment (while the loop runs, while
\* run_inner connects, during the supervisor's wait) reaches the loop: none is
\* lost for having been sent before the receiver of the iteration was
\* resubscribed.  So whenever run_inner connects or runs its loop after a
\* request, its receiver holds the signal.
C18_NoSignalLost ==
    (pc \in {"connect", "select"} /\ requested) => clonePending

\* C20: run returns only after shutdown has been requested; without a
\* request it never returns, whatever the broker does, the delivery stream
\* ending without an error included.
C20_ReturnsOnlyOnShutdown == pc = "returned" => requested

====
